---- MODULE Spec2Model ----
(***************************************************************************)
(* The flavor "combo" plugin of infrakit: a flavor plugin whose operations *)
(* (Validate, Healthy, Drain, Prepare) are the ordered aggregation of the  *)
(* member flavor plugins listed in its properties.                         *)
(*                                                                         *)
(* One call of one operation is modelled from its entry to its return (or  *)
(* to the runtime panic that ends it).  A call is cut into steps at the    *)
(* points where it leaves the combo code: the plugin lookup and the call   *)
(* of a member plugin.  Member plugins and the lookup are the environment: *)
(* their results are drawn from small sets.                                *)
(*                                                                         *)
(* Go strings are sequences of tokens, so that concatenation and           *)
(* strings.Join are computed and not assumed.  Go maps and slices are      *)
(* references: a spec holds the address of its tags map and of its         *)
(* attachments, and the contents live in tagsHeap and attHeap.             *)
(***************************************************************************)
EXTENDS Integers, Sequences, FiniteSets, TLC

\* ------------------------------------------------------------------ bounds
\* longest member list of a composition
MaxMembers == 2

\* most Provision and Destroy calls made on one vagrant plugin
MaxCalls == 2

\* ------------------------------------------------------- values and inputs
\* error values: the nil error, or an error with a message
NoErr == [nil |-> TRUE, msg |-> <<>>]
Err(m) == [nil |-> FALSE, msg |-> m]

\* flavor.Health
Health == {"Unknown", "Healthy", "Unhealthy"}

\* the absent plugin handle (a nil flavor.Plugin interface value)
NilPlugin == "<nil>"

\* plugin names the lookup knows, and all the names a member may carry
Registered == {"a", "b"}
PluginNames == Registered \union {"zz"}

\* types.FlavorPlugin: one member of a composition
FlavorPlugin == {[Plugin |-> "a", Properties |-> "p1"],
                 [Plugin |-> "b", Properties |-> "p2"],
                 [Plugin |-> "zz", Properties |-> "p1"]}

RECURSIVE SeqsUpTo(_, _)
SeqsUpTo(S, n) ==
  IF n = 0 THEN {<<>>}
  ELSE LET shorter == SeqsUpTo(S, n - 1)
       IN shorter \union {Append(q, x) : q \in {r \in shorter : Len(r) = n - 1}, x \in S}

\* the flavorProperties of a request: bytes that do not decode, or the
\* encoding of a member list
FlavorProperties ==
  {[valid |-> FALSE, Flavors |-> <<>>]}
    \union {[valid |-> TRUE, Flavors |-> l] : l \in SeqsUpTo(FlavorPlugin, MaxMembers)}

\* the instance description (Healthy, Drain) or allocation method (Validate,
\* Prepare) of a request, handed through to every member
SharedArg == {"arg-1", "arg-2"}

\* errors a member plugin may return
MemberErrs == {Err(<<"x">>), Err(<<"y">>)}

\* the newline that mergeSpecs puts between two init scripts
NL == "\n"

\* tag keys
Keys == {"k1", "k2"}

\* the absent *instance.LogicalID
NilID == "<nil>"

\* the zero instance.Spec: nil map, nil slice (address 0), empty strings
ZeroSpec ==
  [Properties |-> "", Tags |-> 0, Init |-> <<>>, LogicalID |-> NilID, Attachments |-> 0]

\* instance specs a caller may pass to Prepare, by content
Originals ==
  {[Properties |-> "props0", Tags |-> ("k1" :> "1"), Init |-> <<"a">>,
    LogicalID |-> "id0", Attachments |-> <<"x">>],
   [Properties |-> "props0", Tags |-> <<>>, Init |-> <<>>,
    LogicalID |-> NilID, Attachments |-> <<>>]}

\* what a member's Prepare may do to the spec it is given, field by field
TagEdits == {"keep", "put", "swap"}
InitEdits == {"keep", "clear", "set"}
AttEdits == {"keep", "set"}
MetaEdits == {"keep", "change"}
Edits ==
  {e \in [tags : TagEdits, init : InitEdits, att : AttEdits, meta : MetaEdits] :
     e.meta = "change" => (e.tags = "keep" /\ e.init = "keep" /\ e.att = "keep")}

editTags(e, m) ==
  CASE e = "keep" -> m
    [] e = "put" -> [k \in DOMAIN m \union {"k1"} |-> IF k = "k1" THEN "2" ELSE m[k]]
    [] e = "swap" -> ("k2" :> "1")

editInit(e, in) ==
  CASE e = "keep" -> in
    [] e = "clear" -> <<>>
    [] e = "set" -> <<"b">>

editAtt(e, a) ==
  CASE e = "keep" -> a
    [] e = "set" -> <<"y", "z">>

\* the plugins an RPC service is built over
ServicePlugins == {"P0", "P1", "P2"}

\* the maps PluginServerWithTypes is given: plugin by type
TypedPlugins == {<<>>, ("t1" :> "P1"), ("t1" :> "P1") @@ ("t2" :> "P2")}

\* the type tags of requests: none, and names a map may or may not have
RequestTypes == {"", "t1", "t2", "nonexistent"}

\* req.Properties is a pointer: absent, or the address of a payload
NilProperties == "<nil>"

\* the zero json.RawMessage (var raw json.RawMessage)
EmptyRaw == ""

Requests == [Type : RequestTypes, Properties : {NilProperties, "payload"}]

\* the responses as the caller allocates them: every field its zero value
ZeroResponse ==
  [Type |-> "", OK |-> FALSE, Health |-> "Unknown",
   Spec |-> [Properties |-> "", Tags |-> <<>>, Init |-> <<>>, LogicalID |-> NilID,
             Attachments |-> <<>>]]

\* the names ioutil.TempDir may give a machine directory, in the order
\* ioutil.ReadDir lists them (sorted by name)
MachineOrder == <<"infrakit-1", "infrakit-2">>
MachineNames == {MachineOrder[n] : n \in 1..Len(MachineOrder)}

\* the ids Destroy may be called with: machine names, and the empty id
DestroyIDs == MachineNames \union {""}

\* a machine directory that does not exist
NoDir == [exists |-> FALSE, files |-> <<>>]

\* the instance specs Provision may be called with; the properties are absent,
\* not JSON, JSON without "Box", or JSON with "Box"
VagrantSpecs ==
  [Properties : {NilProperties, "bad-json", "no-box", "box"},
   Tags : {<<>>, ("k1" :> "1")},
   Init : {<<"a">>},
   LogicalID : {NilID, "10.0.0.2"}]

\* the tag filters DescribeInstances may be called with
Filters == {<<>>, ("k1" :> "1"), ("k1" :> "2"), ("k2" :> "1")}

\* where the environment may fail a Provision: the template, the temporary
\* directory, a file write (nothing written, or for tags a truncated file),
\* vagrant up (and then the removal of the directory too)
Faults == {"none", "template", "tempdir", "boot.sh", "Vagrantfile", "up", "up-rm",
           "tags", "tags-truncated", "ip"}

\* the keys of a tag map in the order json.Marshal writes them (sorted)
KeyOrder == <<"k1", "k2">>

\* json.Marshal(spec.Tags): an object with the pairs sorted by key
MarshalTags(m) ==
  [valid |-> TRUE,
   pairs |-> LET ks == SelectSeq(KeyOrder, LAMBDA k : k \in DOMAIN m)
             IN [n \in 1..Len(ks) |-> <<ks[n], m[ks[n]]>>]]

\* what a failed write leaves of the tags file: not valid JSON
TruncatedTags == [valid |-> FALSE, pairs |-> <<>>]

\* json.Unmarshal(tagData, &machineTags)
UnmarshalTags(data) ==
  IF data.valid
  THEN [err |-> NoErr,
        tags |-> [k \in {data.pairs[n][1] : n \in 1..Len(data.pairs)} |->
                    (CHOOSE pr \in {data.pairs[n] : n \in 1..Len(data.pairs)} :
                       pr[1] = k)[2]]]
  ELSE [err |-> Err(<<"unexpected end of JSON input">>), tags |-> <<>>]

\* json.Unmarshal(flavorProperties, &s) into a Spec
Unmarshal(fp) ==
  IF fp.valid THEN [err |-> NoErr, Flavors |-> fp.Flavors]
  ELSE [err |-> Err(<<"invalid-json">>), Flavors |-> <<>>]

\* group.FlavorPluginLookup: the plugin of that name, or no plugin and an error
flavorPlugins(name) ==
  IF name \in Registered THEN [plugin |-> name, err |-> NoErr]
  ELSE [plugin |-> NilPlugin, err |-> Err(<<"no-plugin:", name>>)]

\* strings.Join(elems, sep)
RECURSIVE Join(_, _)
Join(elems, sep) ==
  IF Len(elems) = 0 THEN <<>>
  ELSE IF Len(elems) = 1 THEN elems[1]
  ELSE elems[1] \o sep \o Join(Tail(elems), sep)

\* the content of the map or slice at an address; the nil map and the nil
\* slice are empty
Deref(h, r) == IF r = 0 THEN <<>> ELSE h[r]

\* an instance.Spec by content
Deep(spec, th, ah) ==
  [Properties |-> spec.Properties, Tags |-> Deref(th, spec.Tags), Init |-> spec.Init,
   LogicalID |-> spec.LogicalID, Attachments |-> Deref(ah, spec.Attachments)]

\* cloneSpec as a shallow copy: the struct is copied, the map and the slice are
\* shared with the source
cloneSpecShallow(spec, th, ah) == [spec |-> spec, th |-> th, ah |-> ah]

\* cloneSpec that leaves the logical ID out of the copy
cloneSpecNoLogicalID(spec, th, ah) ==
  [spec |-> [Properties |-> spec.Properties,
             Tags |-> Len(th) + 1,
             Init |-> spec.Init,
             LogicalID |-> NilID,
             Attachments |-> Len(ah) + 1],
   th |-> Append(th, Deref(th, spec.Tags)),
   ah |-> Append(ah, Deref(ah, spec.Attachments))]

\* cloneSpec that makes the new attachments slice and copies nothing into it
cloneSpecNoAttachments(spec, th, ah) ==
  [spec |-> [Properties |-> spec.Properties,
             Tags |-> Len(th) + 1,
             Init |-> spec.Init,
             LogicalID |-> spec.LogicalID,
             Attachments |-> Len(ah) + 1],
   th |-> Append(th, Deref(th, spec.Tags)),
   ah |-> Append(ah, <<>>)]

\* cloneSpec: a new map and a new slice with the elements copied one by one,
\* the logical ID copied by value, properties and init assigned
cloneSpec(spec, th, ah) ==
  LET tags == [k \in DOMAIN Deref(th, spec.Tags) |-> Deref(th, spec.Tags)[k]]
      attachments ==
        [n \in 1..Len(Deref(ah, spec.Attachments)) |-> Deref(ah, spec.Attachments)[n]]
  IN [spec |-> [Properties |-> spec.Properties,
                Tags |-> Len(th) + 1,
                Init |-> spec.Init,
                LogicalID |-> spec.LogicalID,
                Attachments |-> Len(ah) + 1],
      th |-> Append(th, tags),
      ah |-> Append(ah, attachments)]

\* mergeTags that keeps the value already in the result on a key collision
mergeTagsFirstWins(acc, m) ==
  [k \in DOMAIN acc \union DOMAIN m |-> IF k \in DOMAIN acc THEN acc[k] ELSE m[k]]

\* mergeInit without the test for an empty member init
mergeInitAlways(acc, in) ==
  (IF acc # <<>> THEN Append(acc, NL) ELSE acc) \o in

\* mergeAttachments that puts the member's attachments in front
mergeAttachmentsPrepend(acc, a) == a \o acc

\* mergeSpecs, tags: every key of the member's map is stored into result.Tags
mergeTags(acc, m) ==
  [k \in DOMAIN acc \union DOMAIN m |-> IF k \in DOMAIN m THEN m[k] ELSE acc[k]]

\* mergeSpecs, init: a non-empty init is appended, after a newline when the
\* result already has one
mergeInit(acc, in) ==
  IF in # <<>>
  THEN (IF acc # <<>> THEN Append(acc, NL) ELSE acc) \o in
  ELSE acc

\* mergeSpecs, attachments: every attachment is appended
mergeAttachments(acc, a) == acc \o a

\* the loop of mergeSpecs over the member outputs
RECURSIVE mergeLoop(_, _, _, _)
mergeLoop(result, specs, th, ah) ==
  IF Len(specs) = 0 THEN [spec |-> result, th |-> th, ah |-> ah]
  ELSE LET spec == Head(specs)
           th2 == [th EXCEPT ![result.Tags] = mergeTags(@, Deref(th, spec.Tags))]
           ah2 == [ah EXCEPT ![result.Attachments] =
                     mergeAttachments(@, Deref(ah, spec.Attachments))]
           result2 == [result EXCEPT !.Init = mergeInit(@, spec.Init)]
       IN mergeLoop(result2, Tail(specs), th2, ah2)

mergeSpecs(initial, specs, th, ah) ==
  LET c == cloneSpec(initial, th, ah)
  IN mergeLoop(c.spec, specs, c.th, c.ah)

\* ------------------------------------------------------------------- state
VARIABLES
  op,         \* the operation in progress: "none" before the call
  pc,         \* "idle", "loop" (top of the member loop), "invoke", "done", "panic"
  s,          \* the decoded Spec.Flavors
  decoded,    \* TRUE once json.Unmarshal has succeeded
  i,          \* index of the member the loop is at
  plugin,     \* the handle the lookup returned for member i
  errs,       \* Drain's errs slice
  ret_health, \* returned flavor.Health
  ret_err,    \* returned error
  resolved,   \* every lookup made, in order
  calls,      \* every member-plugin invocation made, in order
  tagsHeap,   \* the tag maps, by address
  attHeap,    \* the attachment slices, by address
  inst,       \* Prepare's inst argument
  clone,      \* Prepare's clone for member i
  specs,      \* Prepare's specs slice: the member outputs
  ret_spec,   \* returned instance.Spec
  orig,       \* the content of the caller's spec when Prepare was called
  given,      \* the content of each clone when it was handed to its member
  outs,       \* the content of each member output when it was returned
  arg,        \* the inst / allocation argument of the call
  server,     \* the RPC service: its default plugin and its plugins by type
  req,        \* the RPC request being served
  resp,       \* the RPC response the caller passed in
  root,       \* TRUE while the directory VagrantfilesDir exists
  fs,         \* the machine directories under VagrantfilesDir and their files
  live,       \* ids a successful Provision returned and no Destroy(id) removed since
  ncalls,     \* Provision and Destroy calls made so far
  last,       \* the last vagrant call: method, id, what it found and did
  descriptions \* what the last DescribeInstances returned

heap == <<tagsHeap, attHeap>>
prep == <<inst, clone, specs, ret_spec, orig, given, outs>>
rpc == <<server, req, resp>>
vagrant == <<root, fs, live, ncalls, last, descriptions>>
combo == <<s, decoded, i, errs, ret_health, resolved, heap, prep, arg>>
vars == <<op, pc, s, decoded, i, plugin, errs, ret_health, ret_err, resolved, calls,
          tagsHeap, attHeap, inst, clone, specs, ret_spec, orig, given, outs, arg,
          server, req, resp, root, fs, live, ncalls, last, descriptions>>

Init ==
  /\ op = "none"
  /\ pc = "idle"
  /\ s = <<>>
  /\ decoded = FALSE
  /\ i = 1
  /\ plugin = NilPlugin
  /\ errs = <<>>
  /\ ret_health = "Unknown"
  /\ ret_err = NoErr
  /\ resolved = <<>>
  /\ calls = <<>>
  /\ tagsHeap = <<>>
  /\ attHeap = <<>>
  /\ inst = ZeroSpec
  /\ clone = ZeroSpec
  /\ specs = <<>>
  /\ ret_spec = ZeroSpec
  /\ orig = Deep(ZeroSpec, <<>>, <<>>)
  /\ given = <<>>
  /\ outs = <<>>
  /\ arg = "arg-1"
  /\ server = [plugin |-> NilPlugin, typedPlugins |-> <<>>]
  /\ req = [Type |-> "", Properties |-> NilProperties]
  /\ resp = ZeroResponse
  /\ root = FALSE
  /\ fs = [n \in MachineNames |-> NoDir]
  /\ live = {}
  /\ ncalls = 0
  /\ last = [method |-> "none", id |-> "", hadDir |-> FALSE, changed |-> FALSE]
  /\ descriptions = <<>>

\* Call that hands every member the properties of the first member
CallFirstProperties(method, e, h) ==
  [method |-> method, idx |-> i, plugin |-> plugin, props |-> s[1].Properties,
   arg |-> arg, err |-> e, health |-> h]

Call(method, e, h) ==
  [method |-> method, idx |-> i, plugin |-> plugin, props |-> s[i].Properties,
   arg |-> arg, err |-> e, health |-> h]

\* ---------------------------------------------------------------- Validate
\* Validate that also looks every member's plugin up
ValidateResolvesMembers(a, fp) ==
  /\ pc = "idle"
  /\ op' = "Validate"
  /\ decoded' = Unmarshal(fp).err.nil
  /\ s' = Unmarshal(fp).Flavors
  /\ resolved' = [j \in 1..Len(Unmarshal(fp).Flavors) |-> Unmarshal(fp).Flavors[j].Plugin]
  /\ ret_err' =
       IF ~Unmarshal(fp).err.nil THEN Unmarshal(fp).err
       ELSE IF \E j \in 1..Len(fp.Flavors) : fp.Flavors[j].Plugin \notin Registered
       THEN Err(<<"no-plugin">>)
       ELSE NoErr
  /\ pc' = "done"
  /\ UNCHANGED <<i, plugin, errs, ret_health, calls>>
  /\ UNCHANGED <<heap, prep>>
  /\ arg' = a
  /\ UNCHANGED <<rpc, vagrant>>

Validate(a, fp) ==
  /\ pc = "idle"
  /\ op' = "Validate"
  /\ decoded' = Unmarshal(fp).err.nil
  /\ s' = Unmarshal(fp).Flavors
  /\ ret_err' = Unmarshal(fp).err
  /\ pc' = "done"
  /\ UNCHANGED <<i, plugin, errs, ret_health, resolved, calls>>
  /\ UNCHANGED <<heap, prep>>
  /\ arg' = a
  /\ UNCHANGED <<rpc, vagrant>>

\* ----------------------------------------------------------------- Healthy
HealthyBegin(a, fp) ==
  /\ pc = "idle"
  /\ op' = "Healthy"
  /\ LET u == Unmarshal(fp)
     IN IF ~u.err.nil
        THEN /\ ret_health' = "Unknown"
             /\ ret_err' = u.err
             /\ pc' = "done"
             /\ UNCHANGED <<s, decoded>>
        ELSE /\ s' = u.Flavors
             /\ decoded' = TRUE
             /\ pc' = "loop"
             /\ UNCHANGED <<ret_health, ret_err>>
  /\ UNCHANGED <<i, plugin, errs, resolved, calls>>
  /\ UNCHANGED <<heap, prep>>
  /\ arg' = a
  /\ UNCHANGED <<rpc, vagrant>>

HealthyResolve ==
  /\ op = "Healthy" /\ pc = "loop" /\ i <= Len(s)
  /\ LET r == flavorPlugins(s[i].Plugin)
     IN /\ resolved' = Append(resolved, s[i].Plugin)
        /\ IF ~r.err.nil
           THEN /\ ret_health' = "Unknown"
                /\ ret_err' = r.err
                /\ pc' = "done"
                /\ UNCHANGED plugin
           ELSE /\ plugin' = r.plugin
                /\ pc' = "invoke"
                /\ UNCHANGED <<ret_health, ret_err>>
  /\ UNCHANGED <<op, s, decoded, i, errs, calls>>
  /\ UNCHANGED <<heap, prep>>
  /\ UNCHANGED <<arg, rpc, vagrant>>

\* HealthyInvoke that stops on an error only
HealthyInvokeErrOnly(health, err) ==
  /\ op = "Healthy" /\ pc = "invoke"
  /\ calls' = Append(calls, Call("Healthy", err, health))
  /\ IF ~err.nil
     THEN /\ ret_health' = health
          /\ ret_err' = err
          /\ pc' = "done"
          /\ UNCHANGED i
     ELSE /\ i' = i + 1
          /\ pc' = "loop"
          /\ UNCHANGED <<ret_health, ret_err>>
  /\ UNCHANGED <<op, s, decoded, plugin, errs, resolved>>
  /\ UNCHANGED <<heap, prep>>
  /\ UNCHANGED <<arg, rpc, vagrant>>

\* HealthyInvoke that stops on an error or on Unhealthy, and lets Unknown pass
HealthyInvokeUnknownPasses(health, err) ==
  /\ op = "Healthy" /\ pc = "invoke"
  /\ calls' = Append(calls, Call("Healthy", err, health))
  /\ IF ~err.nil \/ health = "Unhealthy"
     THEN /\ ret_health' = health
          /\ ret_err' = err
          /\ pc' = "done"
          /\ UNCHANGED i
     ELSE /\ i' = i + 1
          /\ pc' = "loop"
          /\ UNCHANGED <<ret_health, ret_err>>
  /\ UNCHANGED <<op, s, decoded, plugin, errs, resolved>>
  /\ UNCHANGED <<heap, prep>>
  /\ UNCHANGED <<arg, rpc, vagrant>>

HealthyInvoke(health, err) ==
  /\ op = "Healthy" /\ pc = "invoke"
  /\ calls' = Append(calls, Call("Healthy", err, health))
  /\ IF ~err.nil \/ health # "Healthy"
     THEN /\ ret_health' = health
          /\ ret_err' = err
          /\ pc' = "done"
          /\ UNCHANGED i
     ELSE /\ i' = i + 1
          /\ pc' = "loop"
          /\ UNCHANGED <<ret_health, ret_err>>
  /\ UNCHANGED <<op, s, decoded, plugin, errs, resolved>>
  /\ UNCHANGED <<heap, prep>>
  /\ UNCHANGED <<arg, rpc, vagrant>>

HealthyReturn ==
  /\ op = "Healthy" /\ pc = "loop" /\ i > Len(s)
  /\ ret_health' = "Healthy"
  /\ ret_err' = NoErr
  /\ pc' = "done"
  /\ UNCHANGED <<op, s, decoded, i, plugin, errs, resolved, calls>>
  /\ UNCHANGED <<heap, prep>>
  /\ UNCHANGED <<arg, rpc, vagrant>>

\* ------------------------------------------------------------------- Drain
DrainBegin(a, fp) ==
  /\ pc = "idle"
  /\ op' = "Drain"
  /\ LET u == Unmarshal(fp)
     IN IF ~u.err.nil
        THEN /\ ret_err' = u.err
             /\ pc' = "done"
             /\ UNCHANGED <<s, decoded>>
        ELSE /\ s' = u.Flavors
             /\ decoded' = TRUE
             /\ pc' = "loop"
             /\ UNCHANGED ret_err
  /\ UNCHANGED <<i, plugin, errs, ret_health, resolved, calls>>
  /\ UNCHANGED <<heap, prep>>
  /\ arg' = a
  /\ UNCHANGED <<rpc, vagrant>>

\* the lookup of member i; a failure is appended to errs and the loop body
\* goes on to the call with whatever handle the lookup returned
DrainResolve ==
  /\ op = "Drain" /\ pc = "loop" /\ i <= Len(s)
  /\ LET r == flavorPlugins(s[i].Plugin)
     IN /\ resolved' = Append(resolved, s[i].Plugin)
        /\ errs' = IF ~r.err.nil THEN Append(errs, r.err.msg) ELSE errs
        /\ plugin' = r.plugin
        /\ pc' = "invoke"
  /\ UNCHANGED <<op, s, decoded, i, ret_health, ret_err, calls>>
  /\ UNCHANGED <<heap, prep>>
  /\ UNCHANGED <<arg, rpc, vagrant>>

\* plugin.Drain(...): a method call on a nil interface value is a runtime
\* panic (nil pointer dereference), which ends the call without a return
DrainInvoke(err) ==
  /\ op = "Drain" /\ pc = "invoke"
  /\ IF plugin = NilPlugin
     THEN /\ pc' = "panic"
          /\ UNCHANGED <<i, errs, calls>>
     ELSE /\ calls' = Append(calls, Call("Drain", err, "Unknown"))
          /\ errs' = IF ~err.nil THEN Append(errs, err.msg) ELSE errs
          /\ i' = i + 1
          /\ pc' = "loop"
  /\ UNCHANGED <<op, s, decoded, plugin, ret_health, ret_err, resolved>>
  /\ UNCHANGED <<heap, prep>>
  /\ UNCHANGED <<arg, rpc, vagrant>>

DrainReturn ==
  /\ op = "Drain" /\ pc = "loop" /\ i > Len(s)
  /\ ret_err' = IF Len(errs) = 0 THEN NoErr ELSE Err(Join(errs, <<", ">>))
  /\ pc' = "done"
  /\ UNCHANGED <<op, s, decoded, i, plugin, errs, ret_health, resolved, calls>>
  /\ UNCHANGED <<heap, prep>>
  /\ UNCHANGED <<arg, rpc, vagrant>>

\* ----------------------------------------------------------------- Prepare
\* entry: the caller's spec o is in memory, inst holds the addresses of its
\* map and slice
PrepareBegin(a, fp, o) ==
  /\ pc = "idle"
  /\ op' = "Prepare"
  /\ tagsHeap' = <<o.Tags>>
  /\ attHeap' = <<o.Attachments>>
  /\ inst' = [Properties |-> o.Properties, Tags |-> 1, Init |-> o.Init,
              LogicalID |-> o.LogicalID, Attachments |-> 1]
  /\ orig' = o
  /\ LET u == Unmarshal(fp)
     IN IF ~u.err.nil
        THEN /\ ret_spec' = inst'
             /\ ret_err' = u.err
             /\ pc' = "done"
             /\ UNCHANGED <<s, decoded>>
        ELSE /\ s' = u.Flavors
             /\ decoded' = TRUE
             /\ pc' = "loop"
             /\ UNCHANGED <<ret_spec, ret_err>>
  /\ UNCHANGED <<i, plugin, errs, ret_health, resolved, calls, clone, specs, given, outs>>
  /\ arg' = a
  /\ UNCHANGED <<rpc, vagrant>>

\* top of the loop body: clone inst, then look the member's plugin up
PrepareResolve ==
  /\ op = "Prepare" /\ pc = "loop" /\ i <= Len(s)
  /\ LET c == cloneSpec(inst, tagsHeap, attHeap)
         r == flavorPlugins(s[i].Plugin)
     IN /\ clone' = c.spec
        /\ tagsHeap' = c.th
        /\ attHeap' = c.ah
        /\ resolved' = Append(resolved, s[i].Plugin)
        /\ IF ~r.err.nil
           THEN /\ ret_spec' = inst
                /\ ret_err' = r.err
                /\ pc' = "done"
                /\ UNCHANGED plugin
           ELSE /\ plugin' = r.plugin
                /\ pc' = "invoke"
                /\ UNCHANGED <<ret_spec, ret_err>>
  /\ UNCHANGED <<op, s, decoded, i, errs, ret_health, calls, inst, specs, orig, given, outs>>
  /\ UNCHANGED <<arg, rpc, vagrant>>

\* PrepareInvoke that returns the clone, not inst, when the member fails
PrepareInvokeReturnsClone(ed, err) ==
  /\ op = "Prepare" /\ pc = "invoke"
  /\ calls' = Append(calls, Call("Prepare", err, "Unknown"))
  /\ given' = Append(given, Deep(clone, tagsHeap, attHeap))
  /\ tagsHeap' = [tagsHeap EXCEPT ![clone.Tags] = editTags(ed.tags, @)]
  /\ attHeap' = [attHeap EXCEPT ![clone.Attachments] = editAtt(ed.att, @)]
  /\ LET flavorOutput ==
           [clone EXCEPT !.Init = editInit(ed.init, @),
                         !.Properties = IF ed.meta = "change" THEN "props1" ELSE @,
                         !.LogicalID = IF ed.meta = "change" THEN "id1" ELSE @]
     IN IF ~err.nil
        THEN /\ ret_spec' = clone
             /\ ret_err' = err
             /\ pc' = "done"
             /\ UNCHANGED <<i, specs, outs>>
        ELSE /\ specs' = Append(specs, flavorOutput)
             /\ outs' = Append(outs, Deep(flavorOutput, tagsHeap', attHeap'))
             /\ i' = i + 1
             /\ pc' = "loop"
             /\ UNCHANGED <<ret_spec, ret_err>>
  /\ UNCHANGED <<op, s, decoded, plugin, errs, ret_health, resolved, inst, clone, orig>>
  /\ UNCHANGED <<arg, rpc, vagrant>>

\* plugin.Prepare(properties, clone, allocation): the member edits the map and
\* the slice of the spec it was given in place, and returns that spec (with
\* its own init, properties and logical ID) or an error
PrepareInvoke(ed, err) ==
  /\ op = "Prepare" /\ pc = "invoke"
  /\ calls' = Append(calls, Call("Prepare", err, "Unknown"))
  /\ given' = Append(given, Deep(clone, tagsHeap, attHeap))
  /\ tagsHeap' = [tagsHeap EXCEPT ![clone.Tags] = editTags(ed.tags, @)]
  /\ attHeap' = [attHeap EXCEPT ![clone.Attachments] = editAtt(ed.att, @)]
  /\ LET flavorOutput ==
           [clone EXCEPT !.Init = editInit(ed.init, @),
                         !.Properties = IF ed.meta = "change" THEN "props1" ELSE @,
                         !.LogicalID = IF ed.meta = "change" THEN "id1" ELSE @]
     IN IF ~err.nil
        THEN /\ ret_spec' = inst
             /\ ret_err' = err
             /\ pc' = "done"
             /\ UNCHANGED <<i, specs, outs>>
        ELSE /\ specs' = Append(specs, flavorOutput)
             /\ outs' = Append(outs, Deep(flavorOutput, tagsHeap', attHeap'))
             /\ i' = i + 1
             /\ pc' = "loop"
             /\ UNCHANGED <<ret_spec, ret_err>>
  /\ UNCHANGED <<op, s, decoded, plugin, errs, ret_health, resolved, inst, clone, orig>>
  /\ UNCHANGED <<arg, rpc, vagrant>>

\* after the loop: return mergeSpecs(inst, specs)
PrepareReturn ==
  /\ op = "Prepare" /\ pc = "loop" /\ i > Len(s)
  /\ LET m == mergeSpecs(inst, specs, tagsHeap, attHeap)
     IN /\ ret_spec' = m.spec
        /\ tagsHeap' = m.th
        /\ attHeap' = m.ah
  /\ ret_err' = NoErr
  /\ pc' = "done"
  /\ UNCHANGED <<op, s, decoded, i, plugin, errs, ret_health, resolved, calls,
                 inst, clone, specs, orig, given, outs>>
  /\ UNCHANGED <<arg, rpc, vagrant>>

\* ------------------------------------------------------------- RPC service
\* PluginServer(p): a service over one plugin
PluginServer(p) ==
  /\ pc = "idle"
  /\ op' = "rpc"
  /\ pc' = "serving"
  /\ server' = [plugin |-> p, typedPlugins |-> <<>>]
  /\ UNCHANGED <<plugin, ret_err, calls, req, resp, combo, vagrant>>

\* PluginServerWithTypes(typed): a service over plugins by type
PluginServerWithTypes(typed) ==
  /\ pc = "idle"
  /\ op' = "rpc"
  /\ pc' = "serving"
  /\ server' = [plugin |-> NilPlugin, typedPlugins |-> typed]
  /\ UNCHANGED <<plugin, ret_err, calls, req, resp, combo, vagrant>>

\* getPlugin that falls back to the default plugin for a type it does not have
getPluginFallback(p, flavorType) ==
  IF flavorType = "" THEN p.plugin
  ELSE IF flavorType \in DOMAIN p.typedPlugins THEN p.typedPlugins[flavorType]
  ELSE p.plugin

\* getPlugin that answers the empty type with a typed plugin when there is no
\* default
getPluginAnyForEmpty(p, flavorType) ==
  IF flavorType = ""
  THEN IF p.plugin = NilPlugin /\ DOMAIN p.typedPlugins # {}
       THEN p.typedPlugins[CHOOSE ty \in DOMAIN p.typedPlugins : TRUE]
       ELSE p.plugin
  ELSE IF flavorType \in DOMAIN p.typedPlugins THEN p.typedPlugins[flavorType]
  ELSE NilPlugin

getPlugin(p, flavorType) ==
  IF flavorType = "" THEN p.plugin
  ELSE IF flavorType \in DOMAIN p.typedPlugins THEN p.typedPlugins[flavorType]
  ELSE NilPlugin

\* a response whose type is left as it was
keepType(rsp, rq) == rsp

\* resp.Type = req.Type
setType(rsp, rq) == [rsp EXCEPT !.Type = rq.Type]

\* fmt.Errorf("no-plugin:%s", req.Type)
noPlugin(rq) == Err(<<"no-plugin:", rq.Type>>)

\* the record of a call the service made on a plugin
Dispatch(method, c, raw, e, h) ==
  [method |-> method, idx |-> 0, plugin |-> c, props |-> raw,
   arg |-> arg, err |-> e, health |-> h]

\* Flavor.Validate: an absent payload is passed on as the empty one
RpcValidate(rq, e) ==
  /\ op = "rpc" /\ pc = "serving"
  /\ op' = "rpc.Validate"
  /\ req' = rq
  /\ LET raw == IF rq.Properties # NilProperties THEN rq.Properties ELSE EmptyRaw
         c == getPlugin(server, rq.Type)
     IN /\ plugin' = c
        /\ IF c = NilPlugin
           THEN /\ resp' = setType(resp, rq)
                /\ ret_err' = noPlugin(rq)
                /\ UNCHANGED calls
           ELSE /\ calls' = Append(calls, Dispatch("Validate", c, raw, e, "Unknown"))
                /\ ret_err' = e
                /\ resp' = IF ~e.nil THEN setType(resp, rq)
                           ELSE [setType(resp, rq) EXCEPT !.OK = TRUE]
  /\ pc' = "done"
  /\ UNCHANGED <<server, combo, vagrant>>

\* Flavor.Prepare: an absent payload is passed on as the empty one
RpcPrepare(rq, out, e) ==
  /\ op = "rpc" /\ pc = "serving"
  /\ op' = "rpc.Prepare"
  /\ req' = rq
  /\ LET raw == IF rq.Properties # NilProperties THEN rq.Properties ELSE EmptyRaw
         c == getPlugin(server, rq.Type)
     IN /\ plugin' = c
        /\ IF c = NilPlugin
           THEN /\ resp' = setType(resp, rq)
                /\ ret_err' = noPlugin(rq)
                /\ UNCHANGED calls
           ELSE /\ calls' = Append(calls, Dispatch("Prepare", c, raw, e, "Unknown"))
                /\ ret_err' = e
                /\ resp' = IF ~e.nil THEN setType(resp, rq)
                           ELSE [setType(resp, rq) EXCEPT !.Spec = out]
  /\ pc' = "done"
  /\ UNCHANGED <<server, combo, vagrant>>

\* Flavor.Healthy: *req.Properties is evaluated without a nil test; with an
\* absent payload it is a nil pointer dereference, a runtime panic
RpcHealthy(rq, h, e) ==
  /\ op = "rpc" /\ pc = "serving"
  /\ op' = "rpc.Healthy"
  /\ req' = rq
  /\ LET c == getPlugin(server, rq.Type)
     IN /\ plugin' = c
        /\ IF c = NilPlugin
           THEN /\ resp' = setType(resp, rq)
                /\ ret_err' = noPlugin(rq)
                /\ pc' = "done"
                /\ UNCHANGED calls
           ELSE IF rq.Properties = NilProperties
           THEN /\ resp' = setType(resp, rq)
                /\ pc' = "panic"
                /\ UNCHANGED <<ret_err, calls>>
           ELSE /\ calls' = Append(calls, Dispatch("Healthy", c, rq.Properties, e, h))
                /\ ret_err' = e
                /\ resp' = IF ~e.nil THEN setType(resp, rq)
                           ELSE [setType(resp, rq) EXCEPT !.Health = h]
                /\ pc' = "done"
  /\ UNCHANGED <<server, combo, vagrant>>

\* Flavor.Drain: *req.Properties is evaluated without a nil test, as in Healthy
RpcDrain(rq, e) ==
  /\ op = "rpc" /\ pc = "serving"
  /\ op' = "rpc.Drain"
  /\ req' = rq
  /\ LET c == getPlugin(server, rq.Type)
     IN /\ plugin' = c
        /\ IF c = NilPlugin
           THEN /\ resp' = setType(resp, rq)
                /\ ret_err' = noPlugin(rq)
                /\ pc' = "done"
                /\ UNCHANGED calls
           ELSE IF rq.Properties = NilProperties
           THEN /\ resp' = setType(resp, rq)
                /\ pc' = "panic"
                /\ UNCHANGED <<ret_err, calls>>
           ELSE /\ calls' = Append(calls, Dispatch("Drain", c, rq.Properties, e, "Unknown"))
                /\ ret_err' = e
                /\ resp' = IF ~e.nil THEN setType(resp, rq)
                           ELSE [setType(resp, rq) EXCEPT !.OK = TRUE]
                /\ pc' = "done"
  /\ UNCHANGED <<server, combo, vagrant>>

\* ---------------------------------------------------------- vagrant plugin
\* NewVagrantPlugin(dir, template) over an existing, empty directory
NewVagrantPlugin ==
  /\ pc = "idle"
  /\ op' = "vagrant"
  /\ pc' = "serving"
  /\ root' = TRUE
  /\ UNCHANGED <<plugin, ret_err, calls, rpc, combo, fs, live, ncalls, last, descriptions>>

\* a file written into a machine directory
WriteFile(dir, name, data) ==
  [dir EXCEPT !.files =
     [f \in DOMAIN dir.files \union {name} |-> IF f = name THEN data ELSE dir.files[f]]]

\* the body of Destroy on a file system: path.Join(VagrantfilesDir, id) is the
\* directory itself for the empty id; os.Stat, then vagrant destroy (its
\* failure is only printed), then os.RemoveAll, which may fail
destroy(rootv, fsv, id, rmOK) ==
  LET there == IF id = "" THEN rootv ELSE rootv /\ fsv[id].exists
  IN IF ~there
     THEN [root |-> rootv, fs |-> fsv, err |-> Err(<<"Instance does not exist">>)]
     ELSE IF ~rmOK
     THEN [root |-> rootv, fs |-> fsv, err |-> Err(<<"remove failed">>)]
     ELSE IF id = ""
     THEN [root |-> FALSE, fs |-> [n \in MachineNames |-> NoDir], err |-> NoErr]
     ELSE [root |-> rootv, fs |-> [fsv EXCEPT ![id] = NoDir], err |-> NoErr]

\* Provision(spec): name is the directory ioutil.TempDir makes, fault the
\* step the environment fails
Provision(spec, name, fault) ==
  /\ op = "vagrant" /\ pc = "serving" /\ ncalls < MaxCalls
  /\ ~fs[name].exists
  /\ fault = "ip" => spec.LogicalID # NilID
  /\ ncalls' = ncalls + 1
  /\ LET d0 == [exists |-> TRUE, files |-> <<>>]
         d1 == WriteFile(d0, "boot.sh", spec.Init)
         d2 == WriteFile(d1, "Vagrantfile", "config")
         d3 == WriteFile(d2, "tags", MarshalTags(spec.Tags))
         d4 == IF spec.LogicalID # NilID THEN WriteFile(d3, "ip", spec.LogicalID) ELSE d3
         fail(dir, msg) ==
           /\ fs' = [fs EXCEPT ![name] = dir]
           /\ ret_err' = Err(<<msg>>)
           /\ live' = live
           /\ last' = [method |-> "Provision", id |-> name, hadDir |-> FALSE,
                       changed |-> dir.exists]
     IN IF spec.Properties = "bad-json" THEN fail(NoDir, "Invalid instance properties")
        ELSE IF spec.Properties # "box" THEN fail(NoDir, "Property 'Box' must be set")
        ELSE IF fault = "template" THEN fail(NoDir, "template")
        ELSE IF ~root \/ fault = "tempdir" THEN fail(NoDir, "tempdir")
        ELSE IF fault = "boot.sh" THEN fail(d0, "write boot.sh")
        ELSE IF fault = "Vagrantfile" THEN fail(d1, "write Vagrantfile")
        ELSE IF fault \in {"up", "up-rm"}
        THEN fail(destroy(root, [fs EXCEPT ![name] = d2], name, fault = "up").fs[name],
                  "vagrant up")
        ELSE IF fault = "tags" THEN fail(d2, "write tags")
        ELSE IF fault = "tags-truncated"
        THEN fail(WriteFile(d2, "tags", TruncatedTags), "write tags")
        ELSE IF fault = "ip" THEN fail(d3, "write ip")
        ELSE /\ fs' = [fs EXCEPT ![name] = d4]
             /\ ret_err' = NoErr
             /\ live' = {l \in live : l.id # name} \union {[id |-> name, tags |-> spec.Tags]}
             /\ last' = [method |-> "Provision", id |-> name, hadDir |-> FALSE,
                         changed |-> TRUE]
  /\ UNCHANGED <<op, pc, plugin, calls, rpc, combo, root, descriptions>>

\* Destroy(id)
Destroy(id, rmOK) ==
  /\ op = "vagrant" /\ pc = "serving" /\ ncalls < MaxCalls
  /\ ncalls' = ncalls + 1
  /\ LET r == destroy(root, fs, id, rmOK)
     IN /\ root' = r.root
        /\ fs' = r.fs
        /\ ret_err' = r.err
        /\ live' = IF r.err.nil THEN {l \in live : l.id # id} ELSE live
        /\ last' = [method |-> "Destroy", id |-> id,
                    hadDir |-> id \in MachineNames /\ root /\ fs[id].exists,
                    changed |-> r.root # root \/ r.fs # fs]
  /\ UNCHANGED <<op, pc, plugin, calls, rpc, combo, descriptions>>

\* the loop of DescribeInstances over the entries of VagrantfilesDir
RECURSIVE describeLoop(_, _, _, _)
describeLoop(fsv, names, tags, acc) ==
  IF Len(names) = 0 THEN [descriptions |-> acc, err |-> NoErr]
  ELSE LET dir == fsv[Head(names)]
           rest == Tail(names)
       IN IF ~dir.exists \/ "tags" \notin DOMAIN dir.files
          THEN describeLoop(fsv, rest, tags, acc)
          ELSE LET u == UnmarshalTags(dir.files["tags"])
                   allMatched ==
                     \A k \in DOMAIN tags : k \in DOMAIN u.tags /\ tags[k] = u.tags[k]
                   logicalID ==
                     IF "ip" \in DOMAIN dir.files THEN dir.files["ip"] ELSE NilID
               IN IF ~u.err.nil THEN [descriptions |-> <<>>, err |-> u.err]
                  ELSE IF allMatched
                  THEN describeLoop(fsv, rest, tags,
                         Append(acc, [ID |-> Head(names), LogicalID |-> logicalID,
                                      Tags |-> u.tags]))
                  ELSE describeLoop(fsv, rest, tags, acc)

\* DescribeInstances(tags) on a file system
describeInstances(rootv, fsv, tags) ==
  IF ~rootv THEN [descriptions |-> <<>>, err |-> Err(<<"readdir">>)]
  ELSE describeLoop(fsv, MachineOrder, tags, <<>>)

DescribeInstances(tags) ==
  /\ op = "vagrant" /\ pc = "serving"
  /\ descriptions' = describeInstances(root, fs, tags).descriptions
  /\ ret_err' = describeInstances(root, fs, tags).err
  /\ last' = [method |-> "DescribeInstances", id |-> "", hadDir |-> FALSE,
              changed |-> FALSE]
  /\ UNCHANGED <<op, pc, plugin, calls, rpc, combo, root, fs, live, ncalls>>

\* ----------------------------------------------------------- specification
Next ==
  \/ \E a \in SharedArg, fp \in FlavorProperties : Validate(a, fp)
  \/ \E a \in SharedArg, fp \in FlavorProperties : HealthyBegin(a, fp)
  \/ HealthyResolve
  \/ \E h \in Health, e \in {NoErr} \union MemberErrs : HealthyInvoke(h, e)
  \/ HealthyReturn
  \/ \E a \in SharedArg, fp \in FlavorProperties : DrainBegin(a, fp)
  \/ DrainResolve
  \/ \E e \in {NoErr} \union MemberErrs : DrainInvoke(e)
  \/ DrainReturn
  \/ \E a \in SharedArg, fp \in FlavorProperties, o \in Originals : PrepareBegin(a, fp, o)
  \/ PrepareResolve
  \/ \E ed \in Edits, e \in {NoErr} \union MemberErrs : PrepareInvoke(ed, e)
  \/ PrepareReturn
  \/ PluginServer("P0")
  \/ \E typed \in TypedPlugins : PluginServerWithTypes(typed)
  \/ \E rq \in Requests, e \in {NoErr} \union MemberErrs : RpcValidate(rq, e)
  \/ \E rq \in Requests, out \in Originals, e \in {NoErr} \union MemberErrs :
       RpcPrepare(rq, out, e)
  \/ \E rq \in Requests, h \in Health, e \in {NoErr} \union MemberErrs :
       RpcHealthy(rq, h, e)
  \/ \E rq \in Requests, e \in {NoErr} \union MemberErrs : RpcDrain(rq, e)
  \/ NewVagrantPlugin
  \/ \E spec \in VagrantSpecs, name \in MachineNames, fault \in Faults :
       Provision(spec, name, fault)
  \/ \E id \in DestroyIDs, rmOK \in BOOLEAN : Destroy(id, rmOK)
  \/ \E tags \in Filters : DescribeInstances(tags)

Spec == Init /\ [][Next]_vars

\* ------------------------------------------------------------------ claims
Passing(c) == c.err.nil /\ c.health = "Healthy"

\* the failure messages of members 1..n in member order: the lookup error of
\* a member whose plugin does not resolve, the error its Drain returned
RECURSIVE MemberFailures(_)
MemberFailures(n) ==
  IF n = 0 THEN <<>>
  ELSE MemberFailures(n - 1)
         \o (IF s[n].Plugin \in Registered THEN <<>>
             ELSE <<flavorPlugins(s[n].Plugin).err.msg>>)
         \o (IF \E j \in 1..Len(calls) : calls[j].idx = n /\ ~calls[j].err.nil
             THEN <<(CHOOSE c \in {calls[j] : j \in 1..Len(calls)} : c.idx = n).err.msg>>
             ELSE <<>>)

DrainEnded == op = "Drain" /\ decoded /\ pc \in {"done", "panic"}

\* C1: in Drain, a member whose plugin fails to resolve has its failure
\* recorded and is skipped: Drain is never called on the absent handle, the
\* call does not crash, and the loop goes on to the next member.
C1_DrainSkipsUnresolved ==
  op = "Drain" =>
    /\ pc # "panic"
    /\ (pc = "invoke" => plugin # NilPlugin)

\* C2: once the member list is decoded, Drain never ends before every member
\* of the list has been attempted.
C2_DrainExhaustsList ==
  DrainEnded => Len(resolved) = Len(s)

\* C3: Drain returns no error iff no member failure was recorded; otherwise
\* it returns one error whose message is the recorded failure messages, each
\* once, in member order, joined by ", ".
C3_DrainCombinedError ==
  DrainEnded =>
    /\ pc = "done"
    /\ ret_err.nil <=> (MemberFailures(Len(s)) = <<>>)
    /\ ~ret_err.nil => ret_err.msg = Join(MemberFailures(Len(s)), <<", ">>)

\* C4: Healthy consults the members in list order and stops at the first one
\* that does not resolve (returning Unknown and the lookup error), returns an
\* error or reports a health other than Healthy (returning that health and
\* error unchanged); no later member is resolved or invoked.
C4_HealthyFailFast ==
  (op = "Healthy" /\ pc = "done" /\ decoded) =>
    LET n == Len(resolved)
        m == Len(calls)
    IN /\ n <= Len(s)
       /\ \A j \in 1..n : resolved[j] = s[j].Plugin
       /\ \A j \in 1..m : /\ calls[j].idx = j
                           /\ calls[j].plugin = s[j].Plugin
                           /\ calls[j].plugin \in Registered
       /\ \A j \in 1..(m - 1) : Passing(calls[j])
       /\ IF n >= 1 /\ s[n].Plugin \notin Registered
          THEN /\ m = n - 1
               /\ ret_health = "Unknown"
               /\ ret_err = flavorPlugins(s[n].Plugin).err
          ELSE /\ m = n
               /\ IF m >= 1 /\ ~Passing(calls[m])
                  THEN ret_health = calls[m].health /\ ret_err = calls[m].err
                  ELSE n = Len(s) /\ ret_health = "Healthy" /\ ret_err.nil

\* a first member reported Unhealthy and the second was never consulted
C4_Witness ==
  /\ op = "Healthy" /\ pc = "done"
  /\ Len(s) >= 2 /\ Len(calls) = 1 /\ Len(resolved) = 1
  /\ calls[1].health = "Unhealthy" /\ calls[1].err.nil
  /\ ret_health = "Unhealthy"

\* C5: Healthy returns (Healthy, nil) iff the properties decode, every member
\* resolves and every member reports Healthy without error; a composition of
\* zero members is Healthy.
C5_HealthyIffAllHealthy ==
  (op = "Healthy" /\ pc = "done") =>
    /\ (ret_health = "Healthy" /\ ret_err.nil)
         <=> /\ decoded
             /\ \A j \in 1..Len(s) :
                   /\ s[j].Plugin \in Registered
                   /\ \E c \in 1..Len(calls) : calls[c].idx = j /\ Passing(calls[c])
    /\ (decoded /\ Len(s) = 0) => (ret_health = "Healthy" /\ ret_err.nil)

\* two members, both reported Healthy, and the composition is Healthy
C5_Witness ==
  /\ op = "Healthy" /\ pc = "done"
  /\ Len(s) >= 2 /\ Len(calls) = Len(s)
  /\ ret_health = "Healthy" /\ ret_err.nil

SameMutable(a, b) ==
  a.Tags = b.Tags /\ a.Init = b.Init /\ a.Attachments = b.Attachments

\* C6: in Prepare every member is handed a spec whose tags, init and
\* attachments are those of the original, whatever earlier members did to
\* theirs; what a member does to its clone shows neither in the caller's spec
\* nor in the spec of another member.
C6_PrepareIsolation ==
  op = "Prepare" =>
    /\ \A j \in 1..Len(given) : SameMutable(given[j], orig)
    /\ SameMutable(Deep(inst, tagsHeap, attHeap), orig)
    /\ \A j \in 1..Len(specs) : Deep(specs[j], tagsHeap, attHeap) = outs[j]
    /\ pc = "invoke" => SameMutable(Deep(clone, tagsHeap, attHeap), orig)

\* the first member changed the tags and the attachments of its clone, and a
\* second member has been handed its clone
C6_Witness ==
  /\ op = "Prepare" /\ Len(given) >= 2 /\ Len(outs) >= 1
  /\ outs[1].Tags # orig.Tags
  /\ outs[1].Attachments # orig.Attachments

\* C7: whenever Prepare returns an error, the error is the underlying one
\* (decode, lookup or member error), the returned spec is the original with
\* nothing merged, and nothing after the failing point was resolved or
\* invoked.
C7_PrepareFailFast ==
  (op = "Prepare" /\ pc = "done" /\ ~ret_err.nil) =>
    LET n == Len(resolved)
        m == Len(calls)
    IN /\ Deep(ret_spec, tagsHeap, attHeap) = orig
       /\ n <= Len(s)
       /\ \A j \in 1..n : resolved[j] = s[j].Plugin
       /\ \A j \in 1..m : calls[j].idx = j /\ calls[j].plugin = s[j].Plugin
       /\ \A j \in 1..(m - 1) : calls[j].err.nil
       /\ IF ~decoded
          THEN n = 0 /\ m = 0 /\ ret_err = Err(<<"invalid-json">>)
          ELSE /\ n >= 1
               /\ IF s[n].Plugin \notin Registered
                  THEN m = n - 1 /\ ret_err = flavorPlugins(s[n].Plugin).err
                  ELSE m = n /\ ret_err = calls[m].err

\* the first member changed its clone and succeeded, the second returned an
\* error, and members remain in the list
C7_Witness ==
  /\ op = "Prepare" /\ pc = "done" /\ ~ret_err.nil
  /\ Len(calls) = 2 /\ Len(outs) = 1
  /\ ~SameMutable(outs[1], orig)
  /\ ret_err = calls[2].err

PrepareOK == op = "Prepare" /\ pc = "done" /\ ret_err.nil

Result == Deep(ret_spec, tagsHeap, attHeap)

\* C8: after a successful Prepare, the merged value of a tag key is the value
\* in the output of the last member whose output has the key, or the
\* original's value when no output has it; every key of the original or of
\* an output is in the result.
C8_MergeTagPrecedence ==
  PrepareOK =>
    \A k \in Keys :
      LET js == {j \in 1..Len(outs) : k \in DOMAIN outs[j].Tags}
      IN IF js # {}
         THEN /\ k \in DOMAIN Result.Tags
              /\ Result.Tags[k] = outs[CHOOSE j \in js : \A l \in js : l <= j].Tags[k]
         ELSE IF k \in DOMAIN orig.Tags
              THEN k \in DOMAIN Result.Tags /\ Result.Tags[k] = orig.Tags[k]
              ELSE k \notin DOMAIN Result.Tags

\* two member outputs carry different values for k1, and the second one wins
C8_Witness ==
  /\ PrepareOK /\ Len(outs) >= 2
  /\ "k1" \in DOMAIN outs[1].Tags /\ "k1" \in DOMAIN outs[2].Tags
  /\ outs[1].Tags["k1"] # outs[2].Tags["k1"]
  /\ "k2" \notin DOMAIN outs[2].Tags

NonEmpty(x) == x # <<>>

NoBlankLine(str) ==
  \/ Len(str) = 0
  \/ /\ str[1] # NL
     /\ str[Len(str)] # NL
     /\ \A j \in 1..(Len(str) - 1) : ~(str[j] = NL /\ str[j + 1] = NL)

\* C9: after a successful Prepare, the merged init is the non-empty strings
\* among the original init and the member output inits, in that order, joined
\* by single newlines; an empty member init adds nothing, no blank line and
\* no leading or trailing newline.
C9_MergeInitConcat ==
  PrepareOK =>
    /\ Result.Init
         = Join(SelectSeq(<<orig.Init>> \o [j \in 1..Len(outs) |-> outs[j].Init], NonEmpty),
                <<NL>>)
    /\ NoBlankLine(Result.Init)

\* a non-empty original init, a member with an empty init, then a member with
\* a non-empty init
C9_Witness ==
  /\ PrepareOK /\ Len(outs) >= 2
  /\ orig.Init # <<>> /\ outs[1].Init = <<>> /\ outs[2].Init = <<"b">>
  /\ Result.Init = <<"a", NL, "b">>

RECURSIVE Concat(_)
Concat(ss) == IF Len(ss) = 0 THEN <<>> ELSE Head(ss) \o Concat(Tail(ss))

\* C10: after a successful Prepare, the merged attachments are the original's
\* followed by each member output's, in member order and in their own order,
\* nothing dropped, deduplicated or reordered.
C10_MergeAttachmentOrder ==
  PrepareOK =>
    /\ Result.Attachments
         = orig.Attachments \o Concat([j \in 1..Len(outs) |-> outs[j].Attachments])
    /\ Len(Result.Attachments)
         = Len(orig.Attachments)
             + Len(Concat([j \in 1..Len(outs) |-> outs[j].Attachments]))

\* original [x], a member with [y, z], a member with [x] again: the result
\* keeps all four in that order
C10_Witness ==
  /\ PrepareOK /\ Len(outs) >= 2
  /\ orig.Attachments = <<"x">>
  /\ outs[1].Attachments = <<"y", "z">> /\ outs[2].Attachments = <<"x">>
  /\ Result.Attachments = <<"x", "y", "z", "x">>

\* C11: Prepare never alters properties or logicalID: whatever the members
\* return, the returned spec has the properties and the logical ID of the
\* original.
C11_PreparePreservesIdentity ==
  (op = "Prepare" /\ pc = "done") =>
    /\ Result.Properties = orig.Properties
    /\ Result.LogicalID = orig.LogicalID

\* a member returned other properties and another logical ID, and Prepare
\* succeeded on an original that has a logical ID
C11_Witness ==
  /\ PrepareOK /\ Len(outs) >= 1
  /\ orig.LogicalID # NilID
  /\ outs[1].Properties # orig.Properties /\ outs[1].LogicalID # orig.LogicalID

\* C12: Prepare with a composition of zero members returns, without error, a
\* spec equal field for field to the original, and invokes no plugin.
C12_PrepareNoMembers ==
  (op = "Prepare" /\ pc = "done" /\ decoded /\ Len(s) = 0) =>
    /\ ret_err.nil
    /\ Result = orig
    /\ calls = <<>>
    /\ resolved = <<>>

\* zero members, and an original with tags, init, logical ID and attachments
C12_Witness ==
  /\ PrepareOK /\ decoded /\ Len(s) = 0
  /\ orig.Init # <<>> /\ orig.Attachments # <<>> /\ DOMAIN orig.Tags # {}
  /\ orig.LogicalID # NilID

\* C16: Validate looks up and invokes no member; it succeeds exactly when the
\* properties decode, also when a member names a plugin the lookup does not
\* know, and fails with the decode error otherwise.
C16_ValidateDecodesOnly ==
  (op = "Validate" /\ pc = "done") =>
    /\ resolved = <<>>
    /\ calls = <<>>
    /\ ret_err.nil <=> decoded
    /\ ~decoded => ret_err = Err(<<"invalid-json">>)

\* Validate succeeded on a member list that names an unknown plugin
C16_Witness ==
  /\ op = "Validate" /\ pc = "done" /\ ret_err.nil
  /\ \E j \in 1..Len(s) : s[j].Plugin \notin Registered

\* C17: in a run of Healthy, Drain or Prepare where every member resolves and
\* none fails, the member invocations are the member list entry for entry:
\* same order, one per entry, with that entry's properties and the call's
\* shared argument; a plugin listed twice is invoked twice.
C17_MemberOrderPreserved ==
  (/\ op \in {"Healthy", "Drain", "Prepare"} /\ pc = "done" /\ decoded
   /\ \A j \in 1..Len(s) : s[j].Plugin \in Registered
   /\ \A j \in 1..Len(calls) :
        calls[j].err.nil /\ (op = "Healthy" => calls[j].health = "Healthy")) =>
    /\ Len(calls) = Len(s)
    /\ \A j \in 1..Len(s) :
         /\ calls[j].method = op
         /\ calls[j].idx = j
         /\ calls[j].plugin = s[j].Plugin
         /\ calls[j].props = s[j].Properties
         /\ calls[j].arg = arg

\* two different members were invoked in a run where nothing failed
C17_Witness ==
  /\ op \in {"Healthy", "Drain", "Prepare"} /\ pc = "done" /\ ret_err.nil
  /\ Len(s) >= 2 /\ Len(calls) = Len(s)
  /\ s[1].Plugin # s[2].Plugin /\ s[1].Properties # s[2].Properties
  /\ calls[2].props = s[2].Properties

\* C18: members whose Prepare returns the clone it was given unchanged are
\* neutral: Prepare returns a spec equal to the original, the original's init
\* and attachments are not repeated once per member.
C18_PassThroughNeutral ==
  (PrepareOK /\ \A j \in 1..Len(outs) : outs[j] = given[j]) => Result = orig

RpcOps == {"rpc.Validate", "rpc.Prepare", "rpc.Healthy", "rpc.Drain"}

RpcEnded == op \in RpcOps /\ pc \in {"done", "panic"}

\* a service built by PluginServer: a default plugin and no plugins by type
DefaultOnly == server.plugin # NilPlugin /\ DOMAIN server.typedPlugins = {}

\* C13 as stated: a service with a single default plugin and no type registry
\* routes every request to the default plugin, with no type tag and with any
\* non-empty type tag alike.
C13_DefaultServesEveryType ==
  (RpcEnded /\ DefaultOnly) => plugin = server.plugin

\* C13 amended: a service with a single default plugin and no type registry
\* routes a request to the default plugin exactly when the request has no
\* type tag; a request with a non-empty type tag fails with the unknown-type
\* error naming the tag and no plugin is invoked.
C13_DefaultServesEmptyTypeOnly ==
  (RpcEnded /\ DefaultOnly) =>
    /\ req.Type = "" => plugin = server.plugin
    /\ req.Type # "" =>
         /\ plugin = NilPlugin
         /\ pc = "done"
         /\ ret_err = Err(<<"no-plugin:", req.Type>>)
         /\ calls = <<>>

\* a request with a non-empty type tag to a default-only service was refused
C13_Witness ==
  /\ RpcEnded /\ DefaultOnly /\ pc = "done"
  /\ req.Type = "t1"
  /\ ret_err = Err(<<"no-plugin:", "t1">>)

\* the type tags a service resolves: the names of its map, and the empty tag
\* when it has a default plugin
Registers(srv, tag) ==
  \/ tag # "" /\ tag \in DOMAIN srv.typedPlugins
  \/ tag = "" /\ srv.plugin # NilPlugin

\* C14: for every service configuration and every type tag it does not
\* register (the empty tag included when there is only a registry), each of
\* the four operations fails with the unknown-type error naming the tag,
\* invokes no plugin and leaves ok, health and spec of the response unset.
C14_UnknownTypeFails ==
  (RpcEnded /\ ~Registers(server, req.Type)) =>
    /\ pc = "done"
    /\ ret_err = Err(<<"no-plugin:", req.Type>>)
    /\ calls = <<>>
    /\ resp.OK = ZeroResponse.OK
    /\ resp.Health = ZeroResponse.Health
    /\ resp.Spec = ZeroResponse.Spec

\* a request with no type tag and no payload to a service that has only a
\* registry was refused by Healthy
C14_Witness ==
  /\ op = "rpc.Healthy" /\ pc = "done"
  /\ server.plugin = NilPlugin /\ DOMAIN server.typedPlugins # {}
  /\ req.Type = "" /\ req.Properties = NilProperties
  /\ ~ret_err.nil

\* C15: each of the four operations sets the type of the response to the
\* type tag of the request on every path that returns.
C15_TypeEchoed ==
  (op \in RpcOps /\ pc = "done") => resp.Type = req.Type

\* a typed request whose plugin returned an error: the type is in the response
C15_Witness ==
  /\ op \in RpcOps /\ pc = "done"
  /\ req.Type = "t1" /\ Len(calls) = 1 /\ ~ret_err.nil
  /\ resp.Type = "t1"

\* C19: for each of the four operations, a request whose type resolves to a
\* plugin and that carries no payload is dispatched to the plugin with the
\* empty payload and returns the plugin's result; it never crashes.
C19_AbsentPayloadDispatched ==
  (RpcEnded /\ req.Properties = NilProperties /\ plugin # NilPlugin) =>
    /\ pc = "done"
    /\ Len(calls) = 1
    /\ calls[1].props = EmptyRaw
    /\ ret_err = calls[1].err

\* the ids DescribeInstances(tags) lists in the current state
Listed(tags) ==
  LET r == describeInstances(root, fs, tags)
  IN {r.descriptions[n].ID : n \in 1..Len(r.descriptions)}

\* every key/value pair of the filter is in the tags
Matches(tags, m) == \A k \in DOMAIN tags : k \in DOMAIN m /\ m[k] = tags[k]

\* C20: after any sequence of Provision and Destroy calls,
\* DescribeInstances(filter) lists an id exactly when a successful
\* Provision(spec) returned it, no Destroy(id) has removed it since, and
\* spec.Tags has every pair of the filter; an instance whose Provision
\* returned an error is never listed; Destroy of an id with no machine
\* directory returns an error and changes nothing.
C20_VagrantLifecycle ==
  op = "vagrant" =>
    /\ \A tags \in Filters :
         Listed(tags) = {l.id : l \in {x \in live : Matches(tags, x.tags)}}
    /\ (last.method = "Provision" /\ ~ret_err.nil) =>
         \A tags \in Filters : last.id \notin Listed(tags)
    /\ (last.method = "Destroy" /\ ~last.hadDir) => (~ret_err.nil /\ ~last.changed)

====
